---- MODULE Spec2Model ----
(***************************************************************************)
(* A model of the arXiv paper-summary pipeline: the blob store             *)
(* (storage.py), the summarizer (summariser.py), the document fetcher      *)
(* (pdf_reader.py), the listing scraper (scraper.py) and the orchestrator  *)
(* process_papers (main.py).                                               *)
(*                                                                         *)
(* Python str values are sequences of one-character strings, so that the   *)
(* string operations of the code (concatenation, slicing, strip, replace)  *)
(* are computed rather than assumed; a character outside ASCII is written  *)
(* by the name of its code point ("U+2003").  Python dicts with str keys are TLA+  *)
(* functions from field names to values.                                   *)
(***************************************************************************)
EXTENDS Integers, Sequences, FiniteSets, TLC

VARIABLES
  now,          \* the wall clock, as a day of the month (datetime.now())
  container,    \* TRUE iff the backing blob container exists
  blobs,        \* the backing container: blob name -> blob text
  storage,      \* the store object of the API client: its container_client is set
  last,         \* the last call a client made to a component on its own, with its result
  written,      \* ghost: <<date, id>> -> record supplied to the latest successful write
  runs,         \* process_papers invocations: run id -> local state
  history,      \* ghost: ended runs, listing, end and container of the last one restarted from
  trunc         \* a summarize_paper call on its own: its inputs and the request it sends

vars == <<now, container, blobs, storage, last, written, runs, history, trunc>>

----------------------------------------------------------------------------
(* Bounds of the model *)

\* days the clock can show: 1..MaxDay
MaxDay == 2
\* entries on a listing page
MaxPapers == 2
\* runs of process_papers that end after their listing (at line 92, or by
\* the exception of a fetch)
MaxRuns == 2
\* length of the content handed to summarize_paper on its own
MaxLen == 4
\* pages of a document fetched on its own
MaxPages == 2
\* dt and dd elements on a listing page scraped on its own
MaxEntries == 3

----------------------------------------------------------------------------
(* Python values *)

\* None.  The values that are not dicts are records whose one field holds a
\* word, which no str is (a str is a sequence of one-character strings), so
\* that no dict, whatever its keys, equals one of them.
None == [py |-> <<"None">>]

\* a value json.dumps cannot serialize (a datetime, a set, ...)
NonSerializable == <<"<object>">>

Min(a, b) == IF a < b THEN a ELSE b

Max(a, b) == IF a > b THEN a ELSE b

\* s[:n]: the first n characters, or all but the last -n when n is negative
Prefix(s, n) ==
  IF n >= 0 THEN SubSeq(s, 1, Min(n, Len(s))) ELSE SubSeq(s, 1, Max(Len(s) + n, 0))

\* s[n:] for n >= 0 (n counts the characters dropped)
Suffix(s, n) == SubSeq(s, Min(n, Len(s)) + 1, Len(s))

\* s.startswith(p)
StartsWith(s, p) == Len(p) <= Len(s) /\ SubSeq(s, 1, Len(p)) = p

\* str.isspace() of one character, which is the white space of str.strip():
\* U+0009..U+000D, U+001C..U+001F, the space, U+0085, U+00A0, U+1680,
\* U+2000..U+200A, U+2028, U+2029, U+202F, U+205F and U+3000.  A character
\* outside ASCII is written by the name of its code point ("U+2003" is the
\* one character EM SPACE, "U+00E9" the one character e-acute), so that the
\* module reads the same under every locale.
IsSpace(c) ==
  c \in {" ", "\t", "\n", "\r", "\f", "", "", "", "", "",
         "U+0085", "U+00A0", "U+1680",
         "U+2000", "U+2001", "U+2002", "U+2003", "U+2004", "U+2005",
         "U+2006", "U+2007", "U+2008", "U+2009", "U+200A",
         "U+2028", "U+2029", "U+202F", "U+205F", "U+3000"}

RECURSIVE lstrip(_)
lstrip(s) == IF s # <<>> /\ IsSpace(Head(s)) THEN lstrip(Tail(s)) ELSE s

RECURSIVE rstrip(_)
rstrip(s) ==
  IF s # <<>> /\ IsSpace(s[Len(s)]) THEN rstrip(SubSeq(s, 1, Len(s) - 1)) ELSE s

\* s.strip()
strip(s) == rstrip(lstrip(s))

\* s.replace(old, "") for a non-empty old: every occurrence, left to right
RECURSIVE Remove(_, _)
Remove(s, old) ==
  IF s = <<>> THEN <<>>
  ELSE IF StartsWith(s, old) THEN Remove(Suffix(s, Len(old)), old)
  ELSE <<Head(s)>> \o Remove(Tail(s), old)

\* s.split(sep)[-1] for a one-character sep: what follows the last sep
RECURSIVE LastSegment(_, _)
LastSegment(s, sep) ==
  IF \E k \in 1..Len(s) : s[k] = sep
  THEN LastSegment(Tail(s), sep)
  ELSE s

\* s.split(sep) for a one-character sep
RECURSIVE split(_, _)
split(s, sep) ==
  IF \A k \in 1..Len(s) : s[k] # sep THEN <<s>>
  ELSE LET k == CHOOSE j \in 1..Len(s) : s[j] = sep /\ \A m \in 1..(j - 1) : s[m] # sep
       IN  <<SubSeq(s, 1, k - 1)>> \o split(SubSeq(s, k + 1, Len(s)), sep)

\* d[key] = value on a dict
DictSet(d, key, value) ==
  [f \in DOMAIN d \cup {key} |-> IF f = key THEN value ELSE d[f]]

----------------------------------------------------------------------------
(* Python values other than str.  A tuple and a list of one-character strs  *)
(* are sequences that begin with a word ("tuple", "list") and go on with    *)
(* their items; no str begins with a word.  The int 1 used as the key of a  *)
(* dict is written "<int 1>".                                               *)

Tuple(items) == <<"tuple">> \o items

List(items) == <<"list">> \o items

IsTuple(v) == v # <<>> /\ Head(v) = "tuple"

IsList(v) == v # <<>> /\ Head(v) = "list"

IntKey == "<int 1>"

----------------------------------------------------------------------------
(* JSON (json.dumps / json.loads).  A JSON text is modelled by whether it   *)
(* parses and by the JSON value it holds: an object is a function from its  *)
(* keys to JSON values, a string is the sequence of its characters, an      *)
(* array of strings is the word "array" followed by its items.  json.dumps  *)
(* writes a str key as it is and an int key as its decimal digits, a str as *)
(* a string, a tuple and a list as an array, and raises TypeError on a      *)
(* value that is not serializable; json.loads reads an object as a dict, a  *)
(* string as a str and an array as a list.                                  *)

JsonText(value) == [wellformed |-> TRUE, value |-> value]

NotJson == [wellformed |-> FALSE, value |-> None]

\* a JSON value that is not an object (an array, a number, a string, null)
JsonArray == [py |-> <<"list">>]

\* isinstance(v, dict)
IsDict(v) == v # None /\ v # JsonArray

\* the key json.dumps writes for a key of a dict
JsonKey(k) == IF k = IntKey THEN "1" ELSE k

\* the JSON value json.dumps writes for a str, a tuple or a list
JsonValue(v) == IF IsTuple(v) \/ IsList(v) THEN <<"array">> \o Tail(v) ELSE v

\* the Python value json.loads makes of a JSON string or array
PyValue(j) == IF j # <<>> /\ Head(j) = "array" THEN List(Tail(j)) ELSE j

\* json.dumps(d) of a dict d (no dict of the model has both the key 1 and
\* the key "1", which json.dumps would write as two members of one name)
json_dumps(d) ==
  IF \E f \in DOMAIN d : d[f] = NonSerializable
  THEN [exc |-> "TypeError", text |-> NotJson]
  ELSE [exc |-> "none",
        text |-> JsonText([k \in {JsonKey(f) : f \in DOMAIN d} |->
                             JsonValue(d[CHOOSE f \in DOMAIN d : JsonKey(f) = k])])]

\* json.loads(text)
json_loads(text) ==
  IF ~text.wellformed THEN [exc |-> "JSONDecodeError", value |-> None]
  ELSE IF ~IsDict(text.value) THEN [exc |-> "none", value |-> text.value]
  ELSE [exc |-> "none",
        value |-> [k \in DOMAIN text.value |-> PyValue(text.value[k])]]

----
(* The clock: datetime.now().strftime("%Y-%m-%d") *)

Digit(n) == <<"0", "1", "2", "3", "4", "5", "6", "7", "8", "9">>[n + 1]

strftime(day) ==
  <<"2", "0", "2", "6", "-", "1", "0", "-", Digit(day \div 10), Digit(day % 10)>>

Days == 1..MaxDay

Dates == {strftime(d) : d \in Days}

----------------------------------------------------------------------------
(* storage.py: AzureBlobStorage *)

\* (mutant) the blob name leaves out the date
BlobNameNoDate(date, arxiv_id) == arxiv_id \o <<".", "j", "s", "o", "n">>

\* f"{date}/{arxiv_id}.json"
BlobName(date, arxiv_id) == date \o <<"/">> \o arxiv_id \o <<".", "j", "s", "o", "n">>

\* (mutant) an upload that appends to the object already stored: two JSON
\* texts one after the other do not parse
upload_blob_appending(store, name, text) ==
  [n \in DOMAIN store \cup {name} |->
     IF n # name THEN store[n]
     ELSE IF name \in DOMAIN store THEN NotJson
     ELSE text]

\* (mutant) an upload that merges the new object into the one already stored
upload_blob_merging(store, name, text) ==
  [n \in DOMAIN store \cup {name} |->
     IF n # name THEN store[n]
     ELSE IF name \notin DOMAIN store THEN text
     ELSE [wellformed |-> TRUE,
           value |-> [f \in DOMAIN store[n].value \cup DOMAIN text.value |->
                        IF f \in DOMAIN text.value THEN text.value[f]
                        ELSE store[n].value[f]]]]

\* blob_client.upload_blob(json_data, overwrite=True)
upload_blob(store, name, text) ==
  [n \in DOMAIN store \cup {name} |-> IF n = name THEN text ELSE store[n]]

\* (mutant) any create_container failure is taken for "the container exists"
AzureBlobStorage_initialize_client_any_error(exists, env) ==
  IF ~env.connection_string THEN [container_client |-> FALSE, container |-> exists]
  ELSE IF ~env.connect THEN [container_client |-> FALSE, container |-> exists]
  ELSE [container_client |-> TRUE, container |-> (exists \/ env.create)]

\* _initialize_client: the container_client it leaves, and the container.
\* env.connection_string: the connection string is set; env.connect:
\* from_connection_string succeeds; env.create: create_container does not fail
\* for a reason other than the container existing (it is called whether or
\* not the container exists, and any other failure, a timeout or a refusal,
\* reaches the outer except, which unsets the client).
AzureBlobStorage_initialize_client(exists, env) ==
  IF ~env.connection_string THEN [container_client |-> FALSE, container |-> exists]
  ELSE IF ~env.connect THEN [container_client |-> FALSE, container |-> exists]
  ELSE IF ~env.create THEN [container_client |-> FALSE, container |-> exists]
  ELSE [container_client |-> TRUE, container |-> TRUE]

InitEnvs == [connection_string : BOOLEAN, connect : BOOLEAN, create : BOOLEAN]

\* (mutant) the identifier is not attached to the record before the write
SaveTryNoArxivId(store, today, arxiv_id, summary_data, uploadOk) ==
  LET blob_name == BlobName(today, arxiv_id)
      stamped == DictSet(summary_data, "stored_date", today)
      json_data == json_dumps(stamped)
  IN  IF json_data.exc # "none"
      THEN [exc |-> json_data.exc, data |-> stamped, blobs |-> store]
      ELSE IF ~uploadOk
      THEN [exc |-> "AzureError", data |-> stamped, blobs |-> store]
      ELSE [exc |-> "none", data |-> stamped,
            blobs |-> upload_blob(store, blob_name, json_data.text)]

\* The try block of save_paper_summary: the exception it ends with ("none" when
\* it reaches return True), the dict as mutated and the container afterwards.
SaveTry(store, today, arxiv_id, summary_data, uploadOk) ==
  LET blob_name == BlobName(today, arxiv_id)
      stamped == DictSet(DictSet(summary_data, "stored_date", today),
                         "arxiv_id", arxiv_id)
      json_data == json_dumps(stamped)
  IN  IF json_data.exc # "none"
      THEN [exc |-> json_data.exc, data |-> stamped, blobs |-> store]
      ELSE IF ~uploadOk
      THEN [exc |-> "AzureError", data |-> stamped, blobs |-> store]
      ELSE [exc |-> "none", data |-> stamped,
            blobs |-> upload_blob(store, blob_name, json_data.text)]

\* save_paper_summary(arxiv_id, summary_data): ret is the returned flag, raised
\* whether an exception leaves the method, data the caller's dict afterwards.
save_paper_summary(container_client, store, today, arxiv_id, summary_data, uploadOk) ==
  IF ~container_client
  THEN [ret |-> FALSE, raised |-> FALSE, data |-> summary_data, blobs |-> store]
  ELSE LET t == SaveTry(store, today, arxiv_id, summary_data, uploadOk)
       IN  IF t.exc = "none"
           THEN [ret |-> TRUE, raised |-> FALSE, data |-> t.data, blobs |-> t.blobs]
           ELSE [ret |-> FALSE, raised |-> FALSE, data |-> t.data, blobs |-> t.blobs]

\* The try block of get_paper_summary.  date = <<>> stands for a date that is
\* None or "" (both are falsy); downloadOk is FALSE when download_blob or
\* readall fails for a reason other than the blob being absent.
GetTry(store, today, arxiv_id, date, downloadOk) ==
  LET d == IF date = <<>> THEN today ELSE date
      blob_name == BlobName(d, arxiv_id)
  IN  IF ~downloadOk THEN [exc |-> "AzureError", value |-> None]
      ELSE IF blob_name \notin DOMAIN store
      THEN [exc |-> "ResourceNotFoundError", value |-> None]
      ELSE json_loads(store[blob_name])

\* get_paper_summary(arxiv_id, date)
get_paper_summary(container_client, store, today, arxiv_id, date, downloadOk) ==
  IF ~container_client
  THEN [found |-> FALSE, data |-> None, raised |-> FALSE]
  ELSE LET t == GetTry(store, today, arxiv_id, date, downloadOk)
       IN  IF t.exc = "none"
           THEN [found |-> TRUE, data |-> t.value, raised |-> FALSE]
           ELSE IF t.exc = "ResourceNotFoundError"
           THEN [found |-> FALSE, data |-> None, raised |-> FALSE]
           ELSE [found |-> FALSE, data |-> None, raised |-> FALSE]

\* The names list_blobs(name_starts_with=prefix) yields
BlobsWithPrefix(store, prefix) == {n \in DOMAIN store : StartsWith(n, prefix)}

\* The loop of list_papers_by_date over the enumerated blob names
RECURSIVE ArxivIdsOf(_)
ArxivIdsOf(names) ==
  IF names = <<>> THEN <<>>
  ELSE LET filename == LastSegment(Head(names), "/")
           arxiv_id == Remove(filename, <<".", "j", "s", "o", "n">>)
       IN  <<arxiv_id>> \o ArxivIdsOf(Tail(names))

\* prefix = f"{date}/", the date defaulting to today
ListPrefix(today, date) == (IF date = <<>> THEN today ELSE date) \o <<"/">>

\* The orders in which a set of names can be enumerated
Enumerations(S) ==
  {e \in [1..Cardinality(S) -> S] : \A x \in S : \E k \in DOMAIN e : e[k] = x}

\* list_papers_by_date(date); enumeration is the order in which the service
\* lists the blobs under the prefix, listOk is FALSE when list_blobs fails.
list_papers_by_date(container_client, enumeration, listOk) ==
  IF ~container_client THEN [ret |-> <<>>, raised |-> FALSE]
  ELSE IF ~listOk THEN [ret |-> <<>>, raised |-> FALSE]
  ELSE [ret |-> ArxivIdsOf(enumeration), raised |-> FALSE]

----------------------------------------------------------------------------
(* summariser.py: OpenAISummarizer *)

\* summarize_paper's default max_content_length
DefaultMaxContentLength == 8000

\* self.deployment_name
DeploymentName == <<"gpt-4o">>

\* _initialize_client: the client is set when the key and the endpoint are
\* given and AzureOpenAI(...) does not raise
OpenAISummarizer_initialize_client(env) == env.api_key /\ env.endpoint /\ env.construct

SummarizerEnvs == [api_key : BOOLEAN, endpoint : BOOLEAN, construct : BOOLEAN]

\* ", ".join(authors)
RECURSIVE JoinAuthors(_)
JoinAuthors(authors) ==
  IF authors = <<>> THEN <<>>
  ELSE IF Len(authors) = 1 THEN authors[1]
  ELSE authors[1] \o <<",", " ">> \o JoinAuthors(Tail(authors))

\* (mutant) the slice is one character short
TruncateShort(content, max_content_length) ==
  IF Len(content) > max_content_length
  THEN Prefix(content, max_content_length - 1) \o <<".", ".", ".">>
  ELSE content

\* if len(content) > max_content_length: content = content[:max_content_length] + "..."
Truncate(content, max_content_length) ==
  IF Len(content) > max_content_length
  THEN Prefix(content, max_content_length) \o <<".", ".", ".">>
  ELSE content

\* The try block of summarize_paper.  response.failed: the request raised;
\* response.text: the body of the reply otherwise.
SummarizeTry(title, authors, content, max_content_length, response) ==
  LET request == [title |-> title, authors |-> JoinAuthors(authors),
                  content |-> Truncate(content, max_content_length)]
      parsed == json_loads(response.text)
  IN  IF response.failed
      THEN [exc |-> "APIError", request |-> request, data |-> None]
      ELSE IF parsed.exc # "none"
      THEN [exc |-> parsed.exc, request |-> request, data |-> None]
      ELSE IF ~IsDict(parsed.value)
      THEN [exc |-> "TypeError", request |-> request, data |-> None]
      ELSE [exc |-> "none", request |-> request,
            data |-> DictSet(DictSet(parsed.value, "summarized_by", <<"Azure OpenAI">>),
                             "model", DeploymentName)]

\* summarize_paper(title, authors, content, max_content_length): the flag, the
\* dict returned with it, and the request sent (None when none was sent)
summarize_paper(client, title, authors, content, max_content_length, response) ==
  IF ~client
  THEN [ok |-> FALSE, request |-> None,
        data |-> [error |-> <<"Azure OpenAI client not initialized">>]]
  ELSE LET t == SummarizeTry(title, authors, content, max_content_length, response)
       IN  IF t.exc = "none"
           THEN [ok |-> TRUE, request |-> t.request, data |-> t.data]
           ELSE [ok |-> FALSE, request |-> t.request,
                 data |-> [error |-> <<t.exc>>, title |-> title]]

----------------------------------------------------------------------------
(* pdf_reader.py *)

RECURSIVE Concat(_)
Concat(pages) == IF pages = <<>> THEN <<>> ELSE Head(pages) \o Concat(Tail(pages))

\* extract_text_from_pdf(file_path).  env.open: fitz.open and the page reads
\* succeed; env.pages: the text of each page.
extract_text_from_pdf(env) ==
  LET text_content == Concat(env.pages)
  IN  IF ~env.open
      THEN [ok |-> FALSE, content |-> <<"Text extraction error: ", "FileDataError">>]
      ELSE IF strip(text_content) = <<>>
      THEN [ok |-> FALSE, content |-> <<"PDF contains no extractable text">>]
      ELSE [ok |-> TRUE, content |-> text_content]

\* the default of the timeout argument of download_and_read_pdf
DefaultTimeout == 30

\* download_and_read_pdf(url, timeout).  env.url: requests accepts the URL
\* (it has a scheme requests knows and a host); env.send: requests.get then
\* gets to send the request and to read the reply without an exception that
\* is not a RequestException (urllib3's LocationParseError for a host it
\* cannot parse, the OSError of cert_verify for a CA bundle that is missing,
\* a MemoryError for a body that does not end); env.download: the GET then
\* succeeds with a 2xx status; env.create: the temporary file can be created;
\* env.write: the bytes get to it; env.buffered: the document fits the buffer
\* of the file object, so that tmp_file.write (line 43) only fills the buffer
\* and a failing write shows when the with block closes the file, after
\* line 44 has assigned tmp_path; env.unlink: os.unlink succeeds.
\* tmp tells what became of the temporary file, raised whether an exception
\* leaves the function.  requests.get turns down a URL it does not accept
\* with a RequestException before it looks at anything else; line 36 catches
\* RequestException only, so that any other exception of requests.get, the
\* ValueError for a timeout that is not positive among them, leaves the
\* function.  Every exception of lines 41-49 is caught at line 51, every
\* exception of the cleanup at line 61.  The cleanup (lines 57-59) deletes
\* the file only when tmp_path has been assigned.
download_and_read_pdf(env, timeout) ==
  IF ~env.url
  THEN [ok |-> FALSE, content |-> <<"Download error: ", "RequestException">>,
        tmp |-> "none", raised |-> FALSE]
  ELSE IF ~env.send \/ timeout <= 0
  THEN [ok |-> FALSE, content |-> <<>>, tmp |-> "none", raised |-> TRUE]
  ELSE IF ~env.download
  THEN [ok |-> FALSE, content |-> <<"Download error: ", "RequestException">>,
        tmp |-> "none", raised |-> FALSE]
  ELSE IF ~env.create
  THEN [ok |-> FALSE, content |-> <<"PDF processing error: ", "OSError">>,
        tmp |-> "none", raised |-> FALSE]
  ELSE IF ~env.write
  THEN [ok |-> FALSE, content |-> <<"PDF processing error: ", "OSError">>,
        tmp |-> IF env.buffered /\ env.unlink THEN "deleted" ELSE "left",
        raised |-> FALSE]
  ELSE LET r == extract_text_from_pdf(env)
       IN  [ok |-> r.ok, content |-> r.content,
            tmp |-> IF env.unlink THEN "deleted" ELSE "left", raised |-> FALSE]

----------------------------------------------------------------------------
(* scraper.py *)

PdfPath == <<"/", "p", "d", "f", "/">>

\* One (dt, dd) pair of the listing: the Paper it yields, or None when the
\* entry is skipped.  dt.href is the href of the first anchor of the dt whose
\* href starts with "/pdf/", <<>> when it has none; dd.title_element and
\* dd.authors_element tell whether the dd has a .list-title and a
\* .list-authors element, dd.title and dd.authors are their texts.
ScrapeEntry(dt, dd) ==
  LET arxiv_id == strip(Remove(dt.href, PdfPath))
  IN  IF dt.href = <<>> THEN None
      ELSE IF arxiv_id = <<>> THEN None
      ELSE [arxiv_id |-> arxiv_id,
            title |-> IF ~dd.title_element THEN <<"Unknown Title">>
                      ELSE strip(Remove(dd.title, <<"Title:">>)),
            authors |-> IF ~dd.authors_element THEN <<>>
                        ELSE LET parts == split(strip(Remove(dd.authors, <<"Authors:">>)), ",")
                             IN  [k \in 1..Len(parts) |-> strip(parts[k])],
            pdf_url |-> <<"https://arxiv.org">> \o dt.href]

\* (mutant) the loop ends at the first entry that is skipped
RECURSIVE ScrapePairsBreaking(_, _)
ScrapePairsBreaking(dts, dds) ==
  IF dts = <<>> \/ dds = <<>> THEN <<>>
  ELSE LET paper == ScrapeEntry(Head(dts), Head(dds))
       IN  IF paper = None THEN <<>>
           ELSE <<paper>> \o ScrapePairsBreaking(Tail(dts), Tail(dds))

\* The loop over zip(dt_elements, dd_elements)
RECURSIVE ScrapePairs(_, _)
ScrapePairs(dts, dds) ==
  IF dts = <<>> \/ dds = <<>> THEN <<>>
  ELSE LET paper == ScrapeEntry(Head(dts), Head(dds))
       IN  (IF paper = None THEN <<>> ELSE <<paper>>)
             \o ScrapePairs(Tail(dts), Tail(dds))

\* what lines 61-69 make of the page's first h3: "now" when there is none,
\* or it is not a "New submissions" header, or the header carries no date;
\* "parsed" when strptime accepts the date the pattern matched; "ValueError"
\* when the pattern matched a date that strptime rejects ("Wednesday, 5
\* March 2025"), which is raised outside any try block
Headers == {"now", "parsed", "ValueError"}

\* scrape_arxiv_recent_papers(url).  page.fetch: the GET succeeds with a 2xx
\* status; page.h3: the date header; page.dl: the page has a dl element;
\* page.dts, page.dds: the dt and dd elements of the first dl.
scrape_arxiv_recent_papers(page) ==
  IF ~page.fetch THEN [raised |-> TRUE, papers |-> <<>>]
  ELSE IF page.h3 = "ValueError" THEN [raised |-> TRUE, papers |-> <<>>]
  ELSE IF ~page.dl THEN [raised |-> FALSE, papers |-> <<>>]
  ELSE [raised |-> FALSE, papers |-> ScrapePairs(page.dts, page.dds)]

----------------------------------------------------------------------------
(* A client of the store API: any sequence of constructions and of          *)
(* save_paper_summary, get_paper_summary and list_papers_by_date calls,     *)
(* as made by the self-test of storage.py and by app.py.                    *)

EmptyStore == [n \in {} |-> NotJson]

NoWrites == [p \in {} |-> None]

\* identifiers the client uses: a new-style and an old-style ("a/b") one
StoreIds == {<<"b">>, <<"a", "/", "b">>}

\* a date that is not one of the days of the model
OldDate == <<"2", "0", "2", "5", "-", "0", "1", "-", "0", "1">>

\* records the client supplies: a fresh summary with a tuple among its
\* values and an int among its keys, a record that already has the storage
\* fields and a list (as one read back from the store has), and one that
\* json.dumps rejects
ClientRecords ==
  { [f \in {"title", "key_points", IntKey} |->
       IF f = "title" THEN <<"T", "1">>
       ELSE IF f = "key_points" THEN Tuple(<<"k">>)
       ELSE <<"S", "1">>],
    [title |-> <<"T", "2">>, key_points |-> List(<<"k">>),
     stored_date |-> OldDate, arxiv_id |-> <<"z">>],
    [title |-> NonSerializable] }

\* the construction could not set up the client (ghost, from the environment)
InitFails(exists, env) ==
  ~env.connection_string \/ ~env.connect \/ ~env.create

NoCall ==
  [op |-> "none", arxiv_id |-> <<>>, date |-> <<>>, supplied |-> None,
   envOk |-> TRUE, ok |-> FALSE, data |-> None, ids |-> <<>>,
   raised |-> FALSE, changed |-> FALSE, existed |-> FALSE]

NoRuns == [p \in {} |-> None]

NoHistory == [n |-> 0]


NoTrunc == [state |-> "unused"]

\* AzureBlobStorage(): __init__ and _initialize_client
NewStorage ==
  /\ \E env \in InitEnvs :
       LET r == AzureBlobStorage_initialize_client(container, env)
       IN  /\ storage' = [container_client |-> r.container_client,
                          init_failed |-> InitFails(container, env)]
           /\ container' = r.container
  /\ last' = NoCall
  /\ UNCHANGED <<now, blobs, written, runs, history, trunc>>

\* storage.save_paper_summary(arxiv_id, summary_data)
SaveCall ==
  /\ \E arxiv_id \in StoreIds, summary_data \in ClientRecords, uploadOk \in BOOLEAN :
       LET today == strftime(now)
           r == save_paper_summary(storage.container_client, blobs, today,
                                 arxiv_id, summary_data, uploadOk)
       IN  /\ blobs' = r.blobs
           /\ last' = [op |-> "save", arxiv_id |-> arxiv_id, date |-> today,
                       supplied |-> summary_data, envOk |-> uploadOk, ok |-> r.ret,
                       data |-> r.data, ids |-> <<>>, raised |-> r.raised,
                       changed |-> (r.blobs # blobs),
                       existed |-> (BlobName(today, arxiv_id) \in DOMAIN blobs)]
           /\ written' = IF r.ret
                         THEN [p \in DOMAIN written \cup {<<today, arxiv_id>>} |->
                                 IF p = <<today, arxiv_id>> THEN summary_data
                                 ELSE written[p]]
                         ELSE written
  /\ UNCHANGED <<now, container, storage, runs, history, trunc>>

\* storage.get_paper_summary(arxiv_id, date)
GetCall ==
  /\ \E arxiv_id \in StoreIds, date \in Dates \cup {<<>>}, downloadOk \in BOOLEAN :
       LET today == strftime(now)
           r == get_paper_summary(storage.container_client, blobs, today,
                                arxiv_id, date, downloadOk)
       IN  last' = [op |-> "get", arxiv_id |-> arxiv_id,
                    date |-> (IF date = <<>> THEN today ELSE date),
                    supplied |-> None, envOk |-> downloadOk, ok |-> r.found,
                    data |-> r.data, ids |-> <<>>, raised |-> r.raised,
                    changed |-> FALSE, existed |-> FALSE]
  /\ UNCHANGED <<now, container, blobs, storage, written, runs, history, trunc>>

\* storage.list_papers_by_date(date)
ListCall ==
  /\ \E date \in Dates \cup {<<>>}, listOk \in BOOLEAN :
       LET today == strftime(now)
           names == BlobsWithPrefix(blobs, ListPrefix(today, date))
       IN  \E enumeration \in Enumerations(names) :
             LET r == list_papers_by_date(storage.container_client, enumeration, listOk)
             IN  last' = [op |-> "list", arxiv_id |-> <<>>,
                          date |-> (IF date = <<>> THEN today ELSE date),
                          supplied |-> None, envOk |-> listOk, ok |-> FALSE,
                          data |-> None, ids |-> r.ret, raised |-> r.raised,
                          changed |-> FALSE, existed |-> FALSE]
  /\ UNCHANGED <<now, container, blobs, storage, written, runs, history, trunc>>

\* midnight passes
Tick ==
  /\ now < MaxDay
  /\ now' = now + 1
  /\ UNCHANGED <<container, blobs, storage, last, written, runs, history, trunc>>

InitStore ==
  /\ now = 1
  /\ blobs = EmptyStore
  /\ written = NoWrites
  /\ last = NoCall
  /\ \E exists \in BOOLEAN, env \in InitEnvs :
       LET r == AzureBlobStorage_initialize_client(exists, env)
       IN  /\ storage = [container_client |-> r.container_client,
                         init_failed |-> InitFails(exists, env)]
           /\ container = r.container
  /\ runs = NoRuns
  /\ history = NoHistory
  /\ trunc = NoTrunc

NextStore == NewStorage \/ SaveCall \/ GetCall \/ ListCall \/ Tick

SpecStore == InitStore /\ [][NextStore]_vars

----------------------------------------------------------------------------
(* main.py: process_papers.  A run p goes through                           *)
(*   idle -> listing -> (check -> fetch -> summarize -> save)* -> return    *)
(*        -> done,                                                          *)
(* or ends in aborted when a component is not ready, or in raised when the  *)
(* listing call (line 46) or the document fetch (line 63) raises: neither   *)
(* call is inside a try.  The runs of this specification take place within  *)
(* one day.                                                                 *)

IdleRun ==
  [pc |-> "idle", summarizer |-> FALSE, container_client |-> FALSE,
   papers |-> <<>>, i |-> 0, content |-> <<>>, summary_data |-> None,
   successful_summaries |-> <<>>, result |-> <<>>, log |-> <<>>]

\* ghost: one call made by a run.  i: the index of the paper (0 for the
\* listing call); ok: the flag the call returned; present: for the skip
\* check, whether the container held the paper's blob for that day;
\* data: for a save that succeeded, the record as written.
Event(op, i, ok, present, data) ==
  [op |-> op, i |-> i, ok |-> ok, present |-> present, data |-> data]

\* listing pages of the runs
Hrefs == {<<>>, PdfPath \o <<" ", "\r">>, PdfPath \o <<"a">>, PdfPath \o <<"b">>}

Dts == {[href |-> h] : h \in Hrefs}

Dds ==
  {[title_element |-> TRUE, title |-> <<"Title:", " ", "T">>,
    authors_element |-> TRUE, authors |-> <<"Authors:", "A", ",", " ", "B">>]}

SeqsUpTo(S, n) == UNION {[1..k -> S] : k \in 0..n}

Pages ==
  {[fetch |-> FALSE, h3 |-> "now", dl |-> FALSE, dts |-> <<>>, dds |-> <<>>],
   [fetch |-> TRUE, h3 |-> "ValueError", dl |-> TRUE, dts |-> <<>>, dds |-> <<>>],
   [fetch |-> TRUE, h3 |-> "now", dl |-> FALSE, dts |-> <<>>, dds |-> <<>>]}
  \cup {[fetch |-> TRUE, h3 |-> "parsed", dl |-> TRUE, dts |-> dts, dds |-> dds] :
         dts \in SeqsUpTo(Dts, MaxPapers), dds \in SeqsUpTo(Dds, MaxPapers)}

\* what a document download and extraction can meet: an exception that
\* leaves download_and_read_pdf, a failed download, a failed write, a
\* document that does not open, one without text and one with text
PdfEnvs ==
  {[url |-> TRUE, send |-> FALSE, buffered |-> TRUE,
    download |-> TRUE, create |-> TRUE, write |-> TRUE, open |-> TRUE,
    unlink |-> TRUE, pages |-> <<>>],
   [url |-> TRUE, send |-> TRUE, buffered |-> TRUE,
    download |-> FALSE, create |-> TRUE, write |-> TRUE, open |-> TRUE,
    unlink |-> TRUE, pages |-> <<>>],
   [url |-> TRUE, send |-> TRUE, buffered |-> FALSE,
    download |-> TRUE, create |-> TRUE, write |-> FALSE, open |-> TRUE,
    unlink |-> TRUE, pages |-> <<>>],
   [url |-> TRUE, send |-> TRUE, buffered |-> TRUE,
    download |-> TRUE, create |-> TRUE, write |-> TRUE, open |-> FALSE,
    unlink |-> TRUE, pages |-> <<>>],
   [url |-> TRUE, send |-> TRUE, buffered |-> TRUE,
    download |-> TRUE, create |-> TRUE, write |-> TRUE, open |-> TRUE,
    unlink |-> TRUE, pages |-> <<<<" ">>, <<"\n">>>>],
   [url |-> TRUE, send |-> TRUE, buffered |-> TRUE,
    download |-> TRUE, create |-> TRUE, write |-> TRUE, open |-> TRUE,
    unlink |-> TRUE, pages |-> <<<<"x">>, <<" ", "y">>>>]}

\* what the summarization service can answer
Responses ==
  {[failed |-> TRUE, text |-> NotJson],
   [failed |-> FALSE, text |-> NotJson],
   [failed |-> FALSE, text |-> JsonText(JsonArray)],
   [failed |-> FALSE, text |-> JsonText([title |-> <<"T">>, summary |-> <<"S", "1">>])],
   [failed |-> FALSE, text |-> JsonText([title |-> <<"T">>, summary |-> <<"S", "2">>])]}

\* the loop moves on to the next paper, or leaves the loop
NextPaper(r) ==
  [r EXCEPT !.i = r.i + 1,
            !.pc = IF r.i + 1 > Len(r.papers) THEN "return" ELSE "check",
            !.content = <<>>, !.summary_data = None]

\* (mutant) only the summarizer is checked before the listing
InitializeUnchecked(p) ==
  /\ runs[p].pc = "idle"
  /\ \E senv \in SummarizerEnvs, env \in InitEnvs :
       LET summarizer == OpenAISummarizer_initialize_client(senv)
           st == AzureBlobStorage_initialize_client(container, env)
       IN  /\ container' = st.container
           /\ runs' = [runs EXCEPT ![p] =
                 [@ EXCEPT !.summarizer = summarizer,
                           !.container_client = st.container_client,
                           !.pc = IF ~summarizer THEN "aborted" ELSE "listing"]]
  /\ UNCHANGED <<now, blobs, storage, last, written, history, trunc>>

\* lines 30-42: the components are constructed and checked
Initialize(p) ==
  /\ runs[p].pc = "idle"
  /\ \E senv \in SummarizerEnvs, env \in InitEnvs :
       LET summarizer == OpenAISummarizer_initialize_client(senv)
           st == AzureBlobStorage_initialize_client(container, env)
       IN  /\ container' = st.container
           /\ runs' = [runs EXCEPT ![p] =
                 [@ EXCEPT !.summarizer = summarizer,
                           !.container_client = st.container_client,
                           !.pc = IF ~summarizer THEN "aborted"
                                  ELSE IF ~st.container_client THEN "aborted"
                                  ELSE "listing"]]
  /\ UNCHANGED <<now, blobs, storage, last, written, history, trunc>>

\* lines 44-49: papers = scrape_arxiv_recent_papers()
Listing(p) ==
  /\ runs[p].pc = "listing"
  /\ \E page \in Pages :
       LET r == scrape_arxiv_recent_papers(page)
           listed == [runs[p] EXCEPT
                        !.log = Append(@, Event("list", 0, ~r.raised, FALSE, None))]
       IN  runs' = [runs EXCEPT ![p] =
             IF r.raised THEN [listed EXCEPT !.pc = "raised"]
             ELSE NextPaper([listed EXCEPT !.papers = r.papers, !.i = 0])]
  /\ UNCHANGED <<now, container, blobs, storage, last, written, history, trunc>>

\* (mutant) the answer of the skip check is not used
SkipCheckIgnored(p) ==
  /\ runs[p].pc = "check"
  /\ \E downloadOk \in BOOLEAN :
       LET r == runs[p]
           paper == r.papers[r.i]
           today == strftime(now)
           got == get_paper_summary(r.container_client, blobs, today,
                                  paper.arxiv_id, <<>>, downloadOk)
           present == BlobName(today, paper.arxiv_id) \in DOMAIN blobs
           checked == [r EXCEPT
                         !.log = Append(@, Event("get", r.i, got.found, present, None))]
       IN  runs' = [runs EXCEPT ![p] = [checked EXCEPT !.pc = "fetch"]]
  /\ UNCHANGED <<now, container, blobs, storage, last, written, history, trunc>>

\* lines 55-59: the skip check
SkipCheck(p) ==
  /\ runs[p].pc = "check"
  /\ \E downloadOk \in BOOLEAN :
       LET r == runs[p]
           paper == r.papers[r.i]
           today == strftime(now)
           got == get_paper_summary(r.container_client, blobs, today,
                                  paper.arxiv_id, <<>>, downloadOk)
           present == BlobName(today, paper.arxiv_id) \in DOMAIN blobs
           checked == [r EXCEPT
                         !.log = Append(@, Event("get", r.i, got.found, present, None))]
       IN  runs' = [runs EXCEPT ![p] =
             IF got.found THEN NextPaper(checked)
             ELSE [checked EXCEPT !.pc = "fetch"]]
  /\ UNCHANGED <<now, container, blobs, storage, last, written, history, trunc>>

\* lines 61-67: download_and_read_pdf(paper.pdf_url).  An exception that
\* leaves the call leaves process_papers too (the log has the call as one
\* that did not succeed, and the run is at raised); the ghost counts the run
\* as ended.
Fetch(p) ==
  /\ runs[p].pc = "fetch"
  /\ \E env \in PdfEnvs :
       LET r == runs[p]
           got == download_and_read_pdf(env, DefaultTimeout)
           fetched == [r EXCEPT
                         !.log = Append(@, Event("fetch", r.i, got.ok, FALSE, None))]
       IN  /\ runs' = [runs EXCEPT ![p] =
                 IF got.raised THEN [fetched EXCEPT !.pc = "raised"]
                 ELSE IF ~got.ok THEN NextPaper(fetched)
                 ELSE [fetched EXCEPT !.pc = "summarize", !.content = got.content]]
           /\ history' = IF got.raised THEN [history EXCEPT !.n = @ + 1] ELSE history
  /\ UNCHANGED <<now, container, blobs, storage, last, written, trunc>>

\* (mutant) a failed summarization does not end the paper's turn
SummarizeNoContinue(p) ==
  /\ runs[p].pc = "summarize"
  /\ \E response \in Responses :
       LET r == runs[p]
           paper == r.papers[r.i]
           got == summarize_paper(r.summarizer, paper.title, paper.authors,
                                 r.content, DefaultMaxContentLength, response)
           summarized == [r EXCEPT
                            !.log = Append(@, Event("summarize", r.i, got.ok, FALSE, None))]
       IN  runs' = [runs EXCEPT ![p] =
             [summarized EXCEPT !.pc = "save", !.summary_data = got.data]]
  /\ UNCHANGED <<now, container, blobs, storage, last, written, history, trunc>>

\* lines 69-79: summarizer.summarize_paper(title, authors, content)
Summarize(p) ==
  /\ runs[p].pc = "summarize"
  /\ \E response \in Responses :
       LET r == runs[p]
           paper == r.papers[r.i]
           got == summarize_paper(r.summarizer, paper.title, paper.authors,
                                 r.content, DefaultMaxContentLength, response)
           summarized == [r EXCEPT
                            !.log = Append(@, Event("summarize", r.i, got.ok, FALSE, None))]
       IN  runs' = [runs EXCEPT ![p] =
             IF ~got.ok THEN NextPaper(summarized)
             ELSE [summarized EXCEPT !.pc = "save", !.summary_data = got.data]]
  /\ UNCHANGED <<now, container, blobs, storage, last, written, history, trunc>>

\* lines 81-89: storage.save_paper_summary(paper.arxiv_id, summary_data)
Save(p) ==
  /\ runs[p].pc = "save"
  /\ \E uploadOk \in BOOLEAN :
       LET r == runs[p]
           paper == r.papers[r.i]
           today == strftime(now)
           got == save_paper_summary(r.container_client, blobs, today,
                                   paper.arxiv_id, r.summary_data, uploadOk)
           saved == [r EXCEPT
                       !.log = Append(@, Event("save", r.i, got.ret, FALSE,
                                               IF got.ret THEN got.data ELSE None))]
       IN  /\ blobs' = got.blobs
           /\ written' = IF got.ret
                         THEN [k \in DOMAIN written \cup {<<today, paper.arxiv_id>>} |->
                                 IF k = <<today, paper.arxiv_id>> THEN r.summary_data
                                 ELSE written[k]]
                         ELSE written
           /\ runs' = [runs EXCEPT ![p] =
                 IF got.ret
                 THEN NextPaper([saved EXCEPT
                        !.successful_summaries = Append(@, got.data)])
                 ELSE NextPaper(saved)]
  /\ UNCHANGED <<now, container, storage, last, history, trunc>>

\* lines 91-92: return successful_summaries
Return(p) ==
  /\ runs[p].pc = "return"
  /\ runs' = [runs EXCEPT ![p] =
       [@ EXCEPT !.pc = "done", !.result = runs[p].successful_summaries]]
  /\ history' = [history EXCEPT !.n = @ + 1]
  /\ UNCHANGED <<now, container, blobs, storage, last, written, trunc>>

\* the listing call of run r returned
Listed(r) == r.log # <<>> /\ r.log[1].op = "list" /\ r.log[1].ok

\* process_papers is invoked again; the ghost keeps the listing of the run
\* that ended after its listing (at line 92, or by the exception of a
\* fetch), how it ended, and the container as that run left it
Restart(p) ==
  /\ runs[p].pc \in {"done", "aborted", "raised"}
  /\ history.n < MaxRuns
  /\ runs' = [runs EXCEPT ![p] = IdleRun]
  /\ history' = IF Listed(runs[p])
                THEN [history EXCEPT !.papers = runs[p].papers, !.blobs = blobs,
                                     !.ended = runs[p].pc]
                ELSE history
  /\ UNCHANGED <<now, container, blobs, storage, last, written, trunc>>

Init ==
  /\ now = 1
  /\ container \in BOOLEAN
  /\ blobs = EmptyStore
  /\ written = NoWrites
  /\ last = NoCall
  /\ storage = [container_client |-> FALSE, init_failed |-> TRUE]
  /\ runs = [p \in {1} |-> IdleRun]
  /\ history = [n |-> 0, papers |-> <<>>, blobs |-> EmptyStore, ended |-> "none"]
  /\ trunc = NoTrunc

RunInitialize == \E p \in DOMAIN runs : Initialize(p)
RunListing == \E p \in DOMAIN runs : Listing(p)
RunSkipCheck == \E p \in DOMAIN runs : SkipCheck(p)
RunFetch == \E p \in DOMAIN runs : Fetch(p)
RunSummarize == \E p \in DOMAIN runs : Summarize(p)
RunSave == \E p \in DOMAIN runs : Save(p)
RunReturn == \E p \in DOMAIN runs : Return(p)
RunRestart == \E p \in DOMAIN runs : Restart(p)

Next ==
  \/ RunInitialize
  \/ RunListing
  \/ RunSkipCheck
  \/ RunFetch
  \/ RunSummarize
  \/ RunSave
  \/ RunReturn
  \/ RunRestart

Spec == Init /\ [][Next]_vars

----------------------------------------------------------------------------
(* summarize_paper on its own, for any content and max_content_length >= 0 *)

Contents == SeqsUpTo({"a", "b"}, MaxLen)

\* replies of the service to a call on its own: those of the runs, and a
\* JSON object with a key of its own choosing
Replies ==
  Responses \cup {[failed |-> FALSE, text |-> JsonText([py |-> <<"x">>])]}

\* summarizer.summarize_paper(title, authors, content, max_content_length)
SummarizeCall ==
  /\ trunc.state = "called"
  /\ \E response \in Replies :
       LET r == summarize_paper(trunc.client, <<"T">>, <<<<"A">>, <<"B">>>>,
                               trunc.content, trunc.max_content_length, response)
       IN  trunc' = [trunc EXCEPT !.state = "returned", !.ok = r.ok,
                                  !.request = r.request, !.data = r.data]
  /\ UNCHANGED <<now, container, blobs, storage, last, written, runs, history>>

InitTrunc ==
  /\ now = 1
  /\ container = FALSE
  /\ blobs = EmptyStore
  /\ written = NoWrites
  /\ last = NoCall
  /\ storage = [container_client |-> FALSE, init_failed |-> TRUE]
  /\ runs = NoRuns
  /\ history = NoHistory
  /\ trunc \in [state : {"called"}, client : BOOLEAN, content : Contents,
                 max_content_length : 0..(MaxLen + 1), ok : {FALSE},
                 request : {None}, data : {None}]

NextTrunc == SummarizeCall

SpecTrunc == InitTrunc /\ [][NextTrunc]_vars

----------------------------------------------------------------------------
(* Properties of the store API (checked under SpecStore) *)

\* the record a write of s under (date, arxiv_id) is expected to leave
StoredForm(s, date, arxiv_id) ==
  [f \in DOMAIN s \cup {"stored_date", "arxiv_id"} |->
     IF f = "stored_date" THEN date
     ELSE IF f = "arxiv_id" THEN arxiv_id
     ELSE s[f]]

\* the last call was a get for a pair that a successful save has written
GetOfWritten ==
  /\ last.op = "get"
  /\ storage.container_client
  /\ <<last.date, last.arxiv_id>> \in DOMAIN written

\* C2 as stated: on a ready store a get (whose download works) for a (date,
\* identifier) that a successful save wrote returns (true, r), and r has every supplied field
\* with its original value plus the injected stored_date and arxiv_id.
C2_RoundTripAsStated ==
  (GetOfWritten /\ last.envOk) =>
    LET s == written[<<last.date, last.arxiv_id>>]
    IN  /\ last.ok
        /\ \A f \in DOMAIN s : f \in DOMAIN last.data /\ last.data[f] = s[f]
        /\ "stored_date" \in DOMAIN last.data /\ last.data["stored_date"] = last.date
        /\ "arxiv_id" \in DOMAIN last.data /\ last.data["arxiv_id"] = last.arxiv_id

\* the key under which a supplied field is read back: the key itself when
\* it is a str, the decimal digits of an int
ReadBackKey(f) == IF f = IntKey THEN "1" ELSE f

\* the value as which a supplied value is read back: a tuple as the list of
\* its items, a str and a list as they were
ReadBackValue(v) == IF IsTuple(v) THEN List(Tail(v)) ELSE v

\* C2 as amended: a get whose download does not fail, for a (date, identifier)
\* that a successful save wrote, returns (true, r) where r has exactly the
\* supplied fields and stored_date and arxiv_id, each under its key as a str;
\* every supplied field other than those two has its value (a tuple has
\* become the list of its items), stored_date is the date of the write and
\* arxiv_id the identifier, whatever the supplied record said for them.
C2_RoundTrip ==
  (GetOfWritten /\ last.envOk) =>
    LET s == written[<<last.date, last.arxiv_id>>]
    IN  /\ last.ok
        /\ ~last.raised
        /\ DOMAIN last.data =
             {ReadBackKey(f) : f \in DOMAIN s} \cup {"stored_date", "arxiv_id"}
        /\ \A f \in DOMAIN s \ {"stored_date", "arxiv_id"} :
             last.data[ReadBackKey(f)] = ReadBackValue(s[f])
        /\ last.data["stored_date"] = last.date
        /\ last.data["arxiv_id"] = last.arxiv_id

\* C2 witness: a record supplied with a tuple among its values and an int
\* among its keys is read back
C2_Witness ==
  /\ GetOfWritten
  /\ last.ok
  /\ LET s == written[<<last.date, last.arxiv_id>>]
     IN  IntKey \in DOMAIN s /\ \E f \in DOMAIN s : IsTuple(s[f])

\* C3: a get for a (date, identifier) pair that no successful save has
\* written returns (false, None) and raises nothing.
C3_NeverWrittenNotFound ==
  (last.op = "get" /\ <<last.date, last.arxiv_id>> \notin DOMAIN written) =>
    (~last.ok /\ last.data = None /\ ~last.raised)

\* C3 witness: a ready store is asked, and the download works, for an
\* identifier that was written under another date only
C3_Witness ==
  /\ last.op = "get"
  /\ storage.container_client
  /\ last.envOk
  /\ <<last.date, last.arxiv_id>> \notin DOMAIN written
  /\ \E p \in DOMAIN written : p[2] = last.arxiv_id

\* the JSON text of a record: an object with the record's fields, a str for
\* a str and an array for a tuple or a list, an int key in decimal digits
Serialized(rec) ==
  JsonText([k \in {ReadBackKey(f) : f \in DOMAIN rec} |->
              LET v == rec[CHOOSE f \in DOMAIN rec : ReadBackKey(f) = k]
              IN  IF IsTuple(v) \/ IsList(v) THEN <<"array">> \o Tail(v) ELSE v])

\* C8: the store holds exactly one object per written (date, identifier),
\* and it is the record of the latest successful write to that key, with
\* nothing of the earlier writes in it.
C8_OverwriteSemantics ==
  /\ \A p \in DOMAIN written :
       /\ BlobName(p[1], p[2]) \in DOMAIN blobs
       /\ blobs[BlobName(p[1], p[2])] = Serialized(StoredForm(written[p], p[1], p[2]))
  /\ Cardinality(DOMAIN blobs) = Cardinality(DOMAIN written)

\* C8 witness: a successful write to a key that already held another record
C8_Witness ==
  /\ last.op = "save"
  /\ last.ok
  /\ last.existed
  /\ last.changed

\* C9: after a failed initialization save returns False, get (False, None)
\* and list [], nothing is raised and the container is left as it was; and a
\* save whose serialization or upload fails returns False without raising.
C9_DisabledStoreNeverThrows ==
  /\ (storage.init_failed /\ last.op = "save") =>
       (~last.ok /\ ~last.raised /\ ~last.changed)
  /\ (storage.init_failed /\ last.op = "get") =>
       (~last.ok /\ last.data = None /\ ~last.raised /\ ~last.changed)
  /\ (storage.init_failed /\ last.op = "list") =>
       (last.ids = <<>> /\ ~last.raised /\ ~last.changed)
  /\ (last.op = "save" /\ ~last.envOk) =>
       (~last.ok /\ ~last.raised /\ ~last.changed)

\* C9 witness: a store whose initialization failed is asked for a blob that
\* is in the container
C9_Witness ==
  /\ storage.init_failed
  /\ last.op = "get"
  /\ BlobName(last.date, last.arxiv_id) \in DOMAIN blobs

----------------------------------------------------------------------------
(* Properties of process_papers (checked under Spec) *)

\* run r made the call op for the paper at index k
Did(r, op, k) == \E j \in DOMAIN r.log : r.log[j].op = op /\ r.log[j].i = k

\* ... and the call returned success
Succeeded(r, op, k) ==
  \E j \in DOMAIN r.log : r.log[j].op = op /\ r.log[j].i = k /\ r.log[j].ok

\* ... and the call returned failure
Failed(r, op, k) ==
  \E j \in DOMAIN r.log : r.log[j].op = op /\ r.log[j].i = k /\ ~r.log[j].ok

\* the paper at index k had a blob under today's date when its turn came
WasStored(r, k) ==
  \E j \in DOMAIN r.log : r.log[j].op = "get" /\ r.log[j].i = k /\ r.log[j].present

\* today's blob name of the paper at index k of run r
TodaysBlob(r, k) == BlobName(strftime(now), r.papers[k].arxiv_id)

\* run r has ended after its listing: by its return at line 92, or by the
\* exception of a fetch
Ended(r) == Listed(r) /\ r.pc \in {"done", "raised"}

\* a second or later run has ended, with the listing of the run before it
SecondRunEnded(p) ==
  /\ Ended(runs[p])
  /\ history.n >= 2
  /\ runs[p].papers = history.papers

\* C1 as stated: after a second run on the same day with the same listing
\* the container holds the same keys and records as after the first run.
C1_IdempotentAsStated ==
  \A p \in DOMAIN runs : SecondRunEnded(p) => blobs = history.blobs

\* C1 as amended: the second run removes no key; it adds keys only for listed
\* papers that were not stored when their turn came; and it replaces a record
\* of the first run only for a listed paper whose skip check failed to read
\* the record that was there.  This holds however the two runs end, by their
\* return or by the exception of a fetch.
C1_Idempotent ==
  \A p \in DOMAIN runs : SecondRunEnded(p) =>
    LET r == runs[p]
    IN  /\ DOMAIN history.blobs \subseteq DOMAIN blobs
        /\ \A n \in DOMAIN blobs \ DOMAIN history.blobs :
             \E k \in DOMAIN r.papers :
               /\ n = TodaysBlob(r, k)
               /\ Succeeded(r, "save", k)
        /\ \A n \in DOMAIN history.blobs :
             blobs[n] # history.blobs[n] =>
               \E k \in DOMAIN r.papers :
                 /\ n = TodaysBlob(r, k)
                 /\ WasStored(r, k)
                 /\ Failed(r, "get", k)
                 /\ Succeeded(r, "save", k)

\* C1 witness: the first run stored a record and was then ended by the
\* exception of a fetch; the second run, over the same listing, has added a
\* record to the ones the first run left
C1_Witness ==
  \E p \in DOMAIN runs :
    /\ SecondRunEnded(p)
    /\ history.ended = "raised"
    /\ DOMAIN history.blobs # {}
    /\ DOMAIN blobs # DOMAIN history.blobs

\* C4 as stated: the returned list holds, in listing order, exactly the
\* records of the listed papers that were not stored today when their turn
\* came and whose fetch, summarization and store write all succeeded.
C4_RunResultExact ==
  \A p \in DOMAIN runs : runs[p].pc = "done" =>
    LET r == runs[p]
        expected == {k \in DOMAIN r.papers :
                       /\ ~WasStored(r, k)
                       /\ Succeeded(r, "fetch", k)
                       /\ Succeeded(r, "summarize", k)
                       /\ Succeeded(r, "save", k)}
        saves == SelectSeq(r.log, LAMBDA e : e.op = "save" /\ e.ok /\ e.i \in expected)
    IN  /\ r.result = [j \in DOMAIN saves |-> saves[j].data]
        /\ \A j \in DOMAIN saves : \A m \in DOMAIN saves : j < m => saves[j].i < saves[m].i

\* the paper at index k of run r failed in its fetch or in its summarization
ItemFailed(r, k) == Failed(r, "fetch", k) \/ Failed(r, "summarize", k)

\* C5 as stated: a paper whose fetch or summarization fails gets no store
\* write, is absent from the successful list and from the store under
\* today's date, and the papers after it are still processed.
C5_ContainmentAsStated ==
  \A p \in DOMAIN runs : Ended(runs[p]) =>
    LET r == runs[p]
    IN  \A k \in DOMAIN r.papers : ItemFailed(r, k) =>
          /\ ~Did(r, "save", k)
          /\ \A j \in DOMAIN r.successful_summaries :
               r.successful_summaries[j]["arxiv_id"] # r.papers[k].arxiv_id
          /\ TodaysBlob(r, k) \notin DOMAIN blobs
          /\ \A m \in DOMAIN r.papers : m > k => Did(r, "get", m)

\* run r ended at a fatal step: a component was not ready, or the listing
\* call raised
EndedAtFatalStep(r) ==
  \/ r.pc = "aborted"
  \/ r.pc = "raised" /\ ~Listed(r)

\* C6: a run whose summarizer or store is not ready returns the empty list
\* without calling the lister; a run whose listing call raises ends with
\* that exception; neither fetches, summarizes or writes.
C6_FatalStepsDoNoWork ==
  \A p \in DOMAIN runs :
    LET r == runs[p]
    IN  /\ (r.pc # "idle" /\ ~(r.summarizer /\ r.container_client)) =>
             (r.pc = "aborted" /\ r.result = <<>> /\ r.log = <<>>)
        /\ (\E j \in DOMAIN r.log : r.log[j].op = "list" /\ ~r.log[j].ok) =>
             (r.pc = "raised" /\ Len(r.log) = 1)
        /\ EndedAtFatalStep(r) =>
             /\ blobs = history.blobs
             /\ r.successful_summaries = <<>>
             /\ \A j \in DOMAIN r.log : r.log[j].op = "list"

\* C6 witness: a run after a completed one finds the store not ready while
\* the container holds records
C6_Witness ==
  \E p \in DOMAIN runs :
    /\ runs[p].pc = "aborted"
    /\ runs[p].summarizer
    /\ ~runs[p].container_client
    /\ DOMAIN blobs # {}

\* C7 as stated: a paper that has a record under today's date when its turn
\* comes is not fetched, not summarized and not written in that run.
C7_SkipIfPresent ==
  \A p \in DOMAIN runs :
    \A k \in DOMAIN runs[p].papers : WasStored(runs[p], k) =>
      /\ ~Did(runs[p], "fetch", k)
      /\ ~Did(runs[p], "summarize", k)
      /\ ~Did(runs[p], "save", k)

----------------------------------------------------------------------------
(* Properties of summarize_paper (checked under SpecTrunc) *)

\* C10: the content embedded in the request is the first max_content_length
\* characters followed by "..." when the content is longer than
\* max_content_length, and the content itself otherwise.
C10_TruncationPolicy ==
  (trunc.state = "returned" /\ trunc.client) =>
    LET content == trunc.content
        n == trunc.max_content_length
        sent == trunc.request.content
    IN  IF Len(content) > n
        THEN /\ Len(sent) = n + 3
             /\ \A k \in 1..n : sent[k] = content[k]
             /\ \A k \in (n + 1)..(n + 3) : sent[k] = "."
        ELSE sent = content

\* C10 witness: a content longer than a positive maximum was sent
C10_Witness ==
  /\ trunc.state = "returned"
  /\ trunc.client
  /\ trunc.max_content_length > 0
  /\ Len(trunc.content) > trunc.max_content_length

----------------------------------------------------------------------------
(* Enumeration of the store (checked under SpecStore) *)

\* the identifiers that successful saves wrote under a date
WrittenOn(date) == {w[2] : w \in {x \in DOMAIN written : x[1] = date}}

\* C11: on a ready store a list_papers_by_date(d) whose listing works returns
\* exactly the identifiers written on d by successful saves, each once, and
\* get_paper_summary(identifier, d) finds a record for every identifier it
\* returns.
C11_EnumerationMatchesWrites ==
  (last.op = "list" /\ storage.container_client /\ last.envOk) =>
    /\ {last.ids[k] : k \in DOMAIN last.ids} = WrittenOn(last.date)
    /\ Len(last.ids) = Cardinality(WrittenOn(last.date))
    /\ \A k \in DOMAIN last.ids :
         get_paper_summary(storage.container_client, blobs, strftime(now),
                           last.ids[k], last.date, TRUE).found

----------------------------------------------------------------------------
(* scrape_arxiv_recent_papers on its own, for any listing page *)

\* detail elements: with title and authors, and with neither
ScrapeDds ==
  Dds \cup {[title_element |-> FALSE, title |-> <<>>,
             authors_element |-> FALSE, authors |-> <<>>]}

\* listing pages: any header, with or without a dl, and dt and dd lists of
\* any (also unequal) lengths
ScrapePages ==
  [fetch : BOOLEAN, h3 : Headers, dl : BOOLEAN,
   dts : SeqsUpTo(Dts, MaxEntries), dds : SeqsUpTo(ScrapeDds, MaxEntries)]

\* papers = scrape_arxiv_recent_papers(url)
ScrapeCall ==
  /\ last.op = "scrape"
  /\ ~last.returned
  /\ LET r == scrape_arxiv_recent_papers(last.page)
     IN  last' = [last EXCEPT !.returned = TRUE, !.raised = r.raised,
                              !.papers = r.papers]
  /\ UNCHANGED <<now, container, blobs, storage, written, runs, history, trunc>>

InitScrape ==
  /\ now = 1
  /\ container = FALSE
  /\ blobs = EmptyStore
  /\ written = NoWrites
  /\ last \in [op : {"scrape"}, page : ScrapePages, returned : {FALSE},
                raised : {FALSE}, papers : {<<>>}]
  /\ storage = [container_client |-> FALSE, init_failed |-> TRUE]
  /\ runs = NoRuns
  /\ history = NoHistory
  /\ trunc = NoTrunc

NextScrape == ScrapeCall

SpecScrape == InitScrape /\ [][NextScrape]_vars

----------------------------------------------------------------------------
(* Properties of the lister (checked under SpecScrape) *)

\* the identifier lines 92-99 extract from a dt: <<>> when there is none
ExtractedId(dt) == IF dt.href = <<>> THEN <<>> ELSE strip(Remove(dt.href, PdfPath))

\* the positions of the zipped pairs whose identifier is a non-empty string
KeptPairs(page) ==
  {k \in 1..Min(Len(page.dts), Len(page.dds)) : ExtractedId(page.dts[k]) # <<>>}

\* the j-th kept position, in page order
KeptAt(page, j) ==
  CHOOSE k \in KeptPairs(page) : Cardinality({m \in KeptPairs(page) : m < k}) = j - 1

\* C12: a scrape that returns from a page with a dl returns one record for
\* each zipped (dt, dd) pair whose identifier is a non-empty string, in page
\* order and without de-duplication: as many records as such pairs, the j-th
\* record being made from the j-th such pair.
C12_ListerResult ==
  (last.op = "scrape" /\ last.returned /\ ~last.raised /\ last.page.dl) =>
    LET page == last.page
    IN  /\ Len(last.papers) = Cardinality(KeptPairs(page))
        /\ \A j \in 1..Len(last.papers) :
             LET k == KeptAt(page, j)
             IN  /\ last.papers[j].arxiv_id = ExtractedId(page.dts[k])
                 /\ last.papers[j].pdf_url = <<"https://arxiv.org">> \o page.dts[k].href
                 /\ (~page.dds[k].title_element) = (last.papers[j].title = <<"Unknown Title">>)
                 /\ (~page.dds[k].authors_element) = (last.papers[j].authors = <<>>)

\* C12 witness: a scrape of a page of three pairs, the first without a
\* usable identifier and the other two with the same identifier, returned
\* two records
C12_Witness ==
  /\ last.op = "scrape"
  /\ last.returned
  /\ ~last.raised
  /\ last.page.dl
  /\ Len(last.page.dts) = 3
  /\ Len(last.page.dds) = 3
  /\ ExtractedId(last.page.dts[1]) = <<>>
  /\ ExtractedId(last.page.dts[2]) # <<>>
  /\ ExtractedId(last.page.dts[2]) = ExtractedId(last.page.dts[3])
  /\ Len(last.papers) = 2

----------------------------------------------------------------------------
(* Order of the steps of a run (checked under Spec) *)

\* the call e may directly follow the call d in the log of a run: the first
\* skip check follows a listing that returned; a skip check for paper i+1
\* follows the call that ended paper i's turn (a skip check that found it, a
\* failed fetch, a failed summarization, or a save); a fetch follows the
\* paper's skip check that found nothing, a summarization the paper's fetch
\* that succeeded, a save the paper's summarization that succeeded
MayFollow(d, e) ==
  \/ /\ e.op = "get"
     /\ e.i = d.i + 1
     /\ \/ d.op = "list" /\ d.ok
        \/ d.op = "get" /\ d.ok
        \/ d.op = "fetch" /\ ~d.ok
        \/ d.op = "summarize" /\ ~d.ok
        \/ d.op = "save"
  \/ e.op = "fetch" /\ d.op = "get" /\ d.i = e.i /\ ~d.ok
  \/ e.op = "summarize" /\ d.op = "fetch" /\ d.i = e.i /\ d.ok
  \/ e.op = "save" /\ d.op = "summarize" /\ d.i = e.i /\ d.ok

\* C13: in every run the first call is the one listing call, and every later
\* call is a step of a paper taken in the order skip check, fetch, summarize,
\* save, each only after the previous step of that paper succeeded (the skip
\* check having answered "not stored"), paper i+1 starting only after paper i
\* was skipped, failed or saved.
C13_StepOrdering ==
  \A p \in DOMAIN runs :
    LET log == runs[p].log
    IN  /\ \A j \in DOMAIN log : (log[j].op = "list") = (j = 1)
        /\ \A j \in 2..Len(log) : MayFollow(log[j - 1], log[j])
        /\ \A j \in DOMAIN log : log[j].i <= Len(runs[p].papers)

\* C13 witness: a run ended in which the first paper went through all four
\* steps and the second paper's fetch failed
C13_Witness ==
  \E p \in DOMAIN runs :
    /\ runs[p].pc = "done"
    /\ Succeeded(runs[p], "save", 1)
    /\ Failed(runs[p], "fetch", 2)

----------------------------------------------------------------------------
(* Completion of a run (checked under Spec) *)

\* the number of calls op that run r made for the paper at index k
Calls(r, op, k) ==
  Cardinality({j \in DOMAIN r.log : r.log[j].op = op /\ r.log[j].i = k})

\* every listed paper had exactly one skip check, and no step of a paper was
\* taken twice
VisitedOnce(r) ==
  \A k \in 1..Len(r.papers) :
    /\ Calls(r, "get", k) = 1
    /\ \A op \in {"fetch", "summarize", "save"} : Calls(r, op, k) <= 1

\* C14 as stated: a run whose initialization and listing succeeded ends by
\* its return (reaches done), whatever the outcome of each paper, having
\* made exactly one skip check for every listed paper and no step twice; no
\* failure of a paper ends the run.  A run that has ended in another way
\* than by its return never reaches done, so a finite run refutes this.
C14_RunCompletion ==
  \A p \in DOMAIN runs :
    Ended(runs[p]) => (runs[p].pc = "done" /\ VisitedOnce(runs[p]))

----------------------------------------------------------------------------
(* Two invocations of process_papers at the same time (two processes on    *)
(* the same container), their calls interleaved in any order.  A blob       *)
(* upload is one request: the service replaces the object as a whole.       *)

ConcurrentRuns == {1, 2}

\* the steps of the runs, without a further invocation
NextRun ==
  \/ RunInitialize
  \/ RunListing
  \/ RunSkipCheck
  \/ RunFetch
  \/ RunSummarize
  \/ RunSave
  \/ RunReturn

InitConcurrent ==
  /\ now = 1
  /\ container \in BOOLEAN
  /\ blobs = EmptyStore
  /\ written = NoWrites
  /\ last = NoCall
  /\ storage = [container_client |-> FALSE, init_failed |-> TRUE]
  /\ runs = [p \in ConcurrentRuns |-> IdleRun]
  /\ history = [n |-> 0, papers |-> <<>>, blobs |-> EmptyStore, ended |-> "none"]
  /\ trunc = NoTrunc

SpecConcurrent == InitConcurrent /\ [][NextRun]_vars

----------------------------------------------------------------------------
(* Properties of concurrent runs (checked under SpecConcurrent) *)

\* run p made a successful save of record rec under the blob name
SavedAs(p, name, rec) ==
  \E j \in DOMAIN runs[p].log :
    LET e == runs[p].log[j]
    IN  /\ e.op = "save"
        /\ e.ok
        /\ e.data = rec
        /\ BlobName(strftime(now), runs[p].papers[e.i].arxiv_id) = name

\* C15: whatever the interleaving of two runs, every object in the store is
\* a well-formed record that is, as a whole, the record one of the runs
\* saved under that name (the store has one object per name).
C15_ConcurrentRunsNoCorruption ==
  \A name \in DOMAIN blobs :
    /\ blobs[name].wellformed
    /\ IsDict(blobs[name].value)
    /\ \E p \in DOMAIN runs : SavedAs(p, name, blobs[name].value)

\* the skip check of run p for paper k found no blob, and the run then saved
\* the paper
SavedUnseen(p, k) ==
  /\ k \in 1..Len(runs[p].papers)
  /\ \E j \in DOMAIN runs[p].log :
       LET e == runs[p].log[j]
       IN  e.op = "get" /\ e.i = k /\ ~e.present
  /\ Succeeded(runs[p], "save", k)

\* C15 witness: both runs passed the skip check for the same identifier
\* before either had written it, and both then saved it, with different
\* summaries
C15_Witness ==
  \E k1 \in 1..MaxPapers, k2 \in 1..MaxPapers :
    /\ SavedUnseen(1, k1)
    /\ SavedUnseen(2, k2)
    /\ runs[1].papers[k1].arxiv_id = runs[2].papers[k2].arxiv_id
    /\ runs[1].successful_summaries # runs[2].successful_summaries

----------------------------------------------------------------------------
(* download_and_read_pdf on its own, for any environment and document *)

\* page texts: none, white space only (a form feed and an EM SPACE also),
\* and text
PageTexts == {<<>>, <<" ", "\n">>, <<"\f", "U+2003">>, <<"x">>}

\* timeouts a caller passes: invalid ones, a short one and the default
Timeouts == {-1, 0, 1, DefaultTimeout}

FetchEnvs ==
  [url : BOOLEAN, send : BOOLEAN, download : BOOLEAN, create : BOOLEAN,
   write : BOOLEAN, buffered : BOOLEAN, open : BOOLEAN, unlink : BOOLEAN,
   pages : SeqsUpTo(PageTexts, MaxPages)]

\* success, content = download_and_read_pdf(url, timeout); returned tells
\* that the call has ended, by a return or by an exception
FetchCall ==
  /\ last.op = "fetch"
  /\ ~last.returned
  /\ LET r == download_and_read_pdf(last.env, last.timeout)
     IN  last' = [last EXCEPT !.returned = TRUE, !.ok = r.ok,
                              !.content = r.content, !.tmp = r.tmp,
                              !.raised = r.raised]
  /\ UNCHANGED <<now, container, blobs, storage, written, runs, history, trunc>>

InitFetch ==
  /\ now = 1
  /\ container = FALSE
  /\ blobs = EmptyStore
  /\ written = NoWrites
  /\ last \in [op : {"fetch"}, env : FetchEnvs, timeout : Timeouts,
                returned : {FALSE}, ok : {FALSE}, content : {<<>>},
                tmp : {"none"}, raised : {FALSE}]
  /\ storage = [container_client |-> FALSE, init_failed |-> TRUE]
  /\ runs = NoRuns
  /\ history = NoHistory
  /\ trunc = NoTrunc

NextFetch == FetchCall

SpecFetch == InitFetch /\ [][NextFetch]_vars

----------------------------------------------------------------------------
(* Properties of the fetcher (checked under SpecFetch) *)

\* the call returned after a download that succeeded
ReturnedAfterDownload ==
  /\ last.op = "fetch"
  /\ last.returned
  /\ ~last.raised
  /\ last.env.url
  /\ last.env.download

\* C16: when download_and_read_pdf returns after a successful download, the
\* temporary file made for the document does not exist (it was deleted, or
\* never created), whether the extraction succeeded, found no text or
\* raised, or the write to the temporary file failed.
C16_TempCleanup ==
  ReturnedAfterDownload => last.tmp # "left"

\* the call returned (success, content) with content starting with prefix
FailedWith(prefix) == ~last.ok /\ last.content # <<>> /\ last.content[1] = prefix

\* the call returned (True, text), text being the pages' texts in order
ReturnedText == last.ok /\ last.content = Concat(last.env.pages)

\* the temporary file could not be created or written
TempFileFails(env) == ~env.create \/ ~env.write

\* requests.get returned a response with a 2xx status
Downloaded(env) == env.url /\ env.download

\* C17 as stated: the call never raises and returns (false, "Download
\* error: ...") on a download failure, (false, "PDF processing error: ...")
\* for any other exception, those of opening and extracting the document
\* included, (false, "PDF contains no extractable text") for a text that is
\* empty or white space only, and (true, text) otherwise.
C17_OutcomesAsStated ==
  (last.op = "fetch" /\ last.returned) =>
    /\ ~last.raised
    /\ IF ~Downloaded(last.env) THEN FailedWith("Download error: ")
       ELSE IF TempFileFails(last.env) \/ ~last.env.open
       THEN FailedWith("PDF processing error: ")
       ELSE IF strip(Concat(last.env.pages)) = <<>>
       THEN ~last.ok /\ last.content = <<"PDF contains no extractable text">>
       ELSE ReturnedText

----------------------------------------------------------------------------
(* Consistency of keys and contents (checked under Spec) *)

\* the object stored under the name is a record whose stored_date and
\* arxiv_id make up that name
KeyMatchesContent(name) ==
  /\ blobs[name].wellformed
  /\ IsDict(blobs[name].value)
  /\ {"stored_date", "arxiv_id"} \subseteq DOMAIN blobs[name].value
  /\ name = BlobName(blobs[name].value["stored_date"], blobs[name].value["arxiv_id"])

\* the store holds the record rec, as it is, under the name made of the
\* record's stored_date and arxiv_id
HeldAsReturned(rec) ==
  LET name == BlobName(rec["stored_date"], rec["arxiv_id"])
  IN  name \in DOMAIN blobs /\ blobs[name].value = rec

\* C18: every object in the store under "{d}/{id}.json" has stored_date d
\* and arxiv_id id, and when a run has returned, every record of the list
\* it returned is identical to the object the store holds for that record's
\* identifier under the date of its write.
C18_KeyContentConsistency ==
  /\ \A name \in DOMAIN blobs : KeyMatchesContent(name)
  /\ \A p \in DOMAIN runs :
       runs[p].pc = "done" =>
         \A j \in DOMAIN runs[p].result : HeldAsReturned(runs[p].result[j])

====
